---- MODULE Spec2Model ----
(***************************************************************************)
(* web-render-rs: the Renderer builder, its fixed-timestep loop            *)
(* (start / next_frame / accumulate), the event and resize closures and    *)
(* the teardown on drop, as a state machine.                               *)
(*                                                                         *)
(* Time is kept on a grid of 1/300 s, so that 1/60 s, 1/30 s, 0.02 s and   *)
(* 0.1 s are whole numbers and the f64 arithmetic of the loop is exact.    *)
(***************************************************************************)
EXTENDS Integers, Sequences, FiniteSets, TLC

VARIABLES
    \* ---- fields of Renderer<S> (lib.rs 7-32)
    on_update, on_render, on_resize, event_listeners, state,
    updates_per_second, fixed_time_step, max_frame_time, accumulated_time,
    exit, previous_instant, number_of_updates, number_of_renders,
    \* ---- control: who owns the Renderer, where next_frame stands
    phase, pc, current_instant, entered_by, result,
    \* ---- the host: canvas, GL context, ResizeObserver, rAF queue
    canvas_listeners, observing, raf_pending, program_bound,
    backing_store, viewport, \* ---- observation of what the run did
    instants, tick_log, residue_entry, acc_entry, updates_entry,
    renders_entry, exit_mid_loop, re_accumulated, calls, last_host, first_set,
    borrowed, peak_borrowed

rendererVars == <<on_update, on_render, on_resize, event_listeners, state,
    updates_per_second, fixed_time_step, max_frame_time, accumulated_time,
    exit, previous_instant, number_of_updates, number_of_renders>>
controlVars == <<phase, pc, current_instant, entered_by, result>>
hostVars == <<canvas_listeners, observing, raf_pending, program_bound,
    backing_store, viewport>>
obsVars == <<instants, tick_log, residue_entry, acc_entry, updates_entry,
    renders_entry, exit_mid_loop, re_accumulated, calls, last_host, first_set,
    borrowed, peak_borrowed>>
vars == <<rendererVars, controlVars, hostVars, obsVars>>

----------------------------------------------------------------------------
\* Bounds of the exploration.

\* ticks that run the loop body (renders) in one run
MaxRenders == 2
\* with_on_event registrations on one builder
MaxListeners == 1

\* current_instant() yields seconds; the model counts 1/300 s units.
TicksPerSecond == 60 * 5

\* values performance.now() is read at: 0.0 s, 0.02 s, 5.02 s
Instants == {0, 6, 1506}
\* updates_per_second arguments of start and set_updates_per_second
UpsChoices == {60, 30}
\* max_frame_time arguments of start: 0.1 s and 0.04 s
MftChoices == {30, 12}

None == "None"
\* last_host before the host has called any closure
NoHostCall == [kind |-> None, what |-> None, cell |-> "empty", ran |-> {},
    n_calls |-> 0, called |-> {}, after_exit |-> FALSE]
UpdateFns == {"update_a", "update_b"}
RenderFns == {"render_a", "render_b"}
ResizeFns == {"resize_same", "resize_half", "resize_wide"}
EventFns == {"on_event"}
EventTypes == {"click", "keydown"}
ClientSizes == {<<4, 2>>, <<8, 6>>}

----------------------------------------------------------------------------
\* Pure helpers.

Max(a, b) == IF a >= b THEN a ELSE b

\* floor(a / b) for b > 0, also for negative a
FloorDiv(a, b) == IF a >= 0 THEN a \div b ELSE 0 - ((b - 1 - a) \div b)

\* 1.0 / updates_per_second as f64, on the grid (start, line 158)
TimeStepOf(ups) == TicksPerSecond \div ups

\* Renderer::accumulate: the clamped elapsed time added to accumulated_time
Elapsed(prev, t, mft) == IF t - prev > mft THEN mft ELSE t - prev

Accumulate(acc, prev, t, mft) == acc + Elapsed(prev, t, mft)

\* (variant: `>` for `>=`)
LoopCond_Strict(acc, step) == acc > step

\* (variant: the loop runs while any time is left)
LoopCond_Positive(acc, step) == acc > 0

\* the condition of the while loop of next_frame
LoopCond(acc, step) == acc >= step

\* the clock reads s (each [at, by]) never went back
Monotone(s) == \A i \in 1..Len(s) : \A j \in i..Len(s) : s[i].at <= s[j].at

\* the reads of ticks at the instants ts, with no other read
TickReads(ts) == [i \in 1..Len(ts) |-> [at |-> ts[i], by |-> "next_frame"]]

----------------------------------------------------------------------------
\* What a user callback does with the UpdateInfo / RenderInfo it is given:
\* at most one of the operations of lib.rs 45-93 per invocation.

NoOp == [op |-> "none", arg |-> 0]
UpdateOps == {NoOp, [op |-> "exit", arg |-> 0]}
    \cup {[op |-> "set_updates_per_second", arg |-> m] : m \in UpsChoices}
RenderOps == UpdateOps \cup {[op |-> "re_accumulate", arg |-> t] : t \in Instants}

\* update_a and render_a only touch the user's state (like the callbacks of
\* examples/web-test); update_b and render_b may use any operation
UpdateOpsOf(f) == IF f = "update_b" THEN UpdateOps ELSE {NoOp}
RenderOpsOf(f) == IF f = "render_b" THEN RenderOps ELSE {NoOp}

\* UpdateInfo::exit / RenderInfo::exit
ExitAfter(o, ex) == ex \/ o.op = "exit"

\* UpdateInfo::set_updates_per_second / RenderInfo::set_updates_per_second
UpsAfter(o, ups) == IF o.op = "set_updates_per_second" THEN o.arg ELSE ups

\* RenderInfo::re_accumulate: accumulate(current_instant())
AccAfter(o, acc, prev, mft) ==
    IF o.op = "re_accumulate" THEN Accumulate(acc, prev, o.arg, mft) ELSE acc

\* the instants current_instant() returned, extended by the one an op reads
ReadsAfter(o, s) ==
    IF o.op = "re_accumulate"
    THEN Append(s, [at |-> o.arg, by |-> "re_accumulate"]) ELSE s

\* A u32 is kept as its two 16-bit halves <<high, low>>; an i32 is an
\* integer of the model.
HalfWord == 2^16
U32(n) == <<n \div HalfWord, n % HalfWord>>
\* `as u32` of an i32 and `as i32` of a u32 (two's complement, 32 bits)
AsU32(i) == <<(i \div HalfWord) % HalfWord, i % HalfWord>>
AsI32(u) ==
    (IF u[1] < HalfWord \div 2 THEN u[1] ELSE u[1] - HalfWord) * HalfWord + u[2]
HalfOf(u) == <<u[1] \div 2, (u[2] + (u[1] % 2) * HalfWord) \div 2>>

\* the user's resize hooks, (u32, u32) -> (u32, u32): the size as it is, the
\* size halved, and a width of 2^31 whatever the size
ResizeFn(f, sz) ==
    CASE f = "resize_half" -> <<HalfOf(sz[1]), HalfOf(sz[2])>>
      [] f = "resize_wide" -> <<(<<HalfWord \div 2, 0>>), sz[2]>>
      [] OTHER -> sz

----------------------------------------------------------------------------
\* The RefCell around the user's state. borrowed counts the RefMut alive
\* when a step is over, peak_borrowed the most that were alive at once.

RECURSIVE HeldAfter(_, _)
RECURSIVE PeakOf(_, _, _)

borrowVars == <<borrowed, peak_borrowed>>

\* (variant: the RefMut outlives the call it was taken for)
Released_Kept(held) == held

\* the temporary RefMut of `state.borrow_mut().deref_mut()` is dropped at the
\* end of the statement that calls the user's function
Released(held) == held - 1

\* n calls in a row, each `borrow_mut()`, the user's function, the release
HeldAfter(held, n) ==
    IF n = 0 THEN held ELSE HeldAfter(Released(held + 1), n - 1)
PeakOf(held, n, peak) ==
    IF n = 0 THEN peak
    ELSE PeakOf(Released(held + 1), n - 1, Max(peak, held + 1))

Borrows(n) ==
    /\ borrowed' = HeldAfter(borrowed, n)
    /\ peak_borrowed' = PeakOf(borrowed, n, peak_borrowed)

----------------------------------------------------------------------------
\* Teardown.

\* (variant: EventListener without its Drop)
Unsubscribed_None(cl, els) == cl

\* Drop for EventListener, run for every element of event_listeners
Unsubscribed(cl, els) ==
    {l \in cl : \A i \in 1..Len(els) : els[i].closure # l.closure}

\* (variant: the listeners stay on the canvas when the Renderer goes)
DropRenderer_KeepsListeners ==
    /\ observing' = FALSE
    /\ canvas_listeners' = canvas_listeners
    /\ phase' = "Dropped"

\* (variant: Renderer without its Drop)
DropRenderer_NoDisconnect ==
    /\ observing' = observing
    /\ canvas_listeners' = Unsubscribed(canvas_listeners, event_listeners)
    /\ phase' = "Dropped"

\* Drop for Renderer, then the drop of its fields
DropRenderer ==
    /\ observing' = FALSE
    /\ canvas_listeners' = Unsubscribed(canvas_listeners, event_listeners)
    /\ phase' = "Dropped"

----------------------------------------------------------------------------
\* Renderer::from_canvas

Init ==
    /\ on_update = None /\ on_render = None /\ on_resize = None
    /\ event_listeners = <<>>
    /\ state = "empty"
    /\ updates_per_second = 0 /\ fixed_time_step = 0 /\ max_frame_time = 0
    /\ accumulated_time = 0 /\ exit = FALSE /\ previous_instant = 0
    /\ number_of_updates = 0 /\ number_of_renders = 0
    /\ phase = "Configuring" /\ pc = "idle" /\ current_instant = 0
    /\ entered_by = "none"
    /\ result = [op |-> "from_canvas", ok |-> TRUE]
    /\ canvas_listeners = {} /\ observing = TRUE /\ raf_pending = 0
    /\ program_bound = FALSE
    /\ backing_store = <<U32(0), U32(0)>> /\ viewport = <<0, 0>>
    /\ instants = <<>> /\ tick_log = <<>> /\ residue_entry = 0
    /\ acc_entry = 0 /\ updates_entry = 0 /\ renders_entry = 0
    /\ exit_mid_loop = FALSE /\ re_accumulated = FALSE
    /\ calls = [update |-> 0, render |-> 0]
    /\ last_host = NoHostCall
    /\ first_set = [update |-> None, render |-> None, resize |-> None]
    /\ borrowed = 0 /\ peak_borrowed = 0

----------------------------------------------------------------------------
\* The builder. Every with_* takes self by value: on Err the Renderer is
\* not handed back, it goes out of scope inside the call and is dropped.

Configuring == phase = "Configuring" /\ pc = "idle"

schedulerVars == <<updates_per_second, fixed_time_step, max_frame_time,
    accumulated_time, exit, previous_instant, number_of_updates,
    number_of_renders, current_instant, entered_by, raf_pending, instants, tick_log, residue_entry, acc_entry, updates_entry,
    renders_entry, exit_mid_loop, re_accumulated, calls, borrowed,
    peak_borrowed>>
surfaceVars == <<backing_store, viewport, last_host>>

\* (variant: the slot is a plain field that set overwrites)
SlotAfter_Overwrite(slot, f) == f

\* OnceCell::set on a slot: Ok when empty, Err (slot unchanged) when full
SlotAfter(slot, f) == IF slot = None THEN f ELSE slot
SlotOk(slot) == slot = None

FirstAfter(fs, k, f) == IF fs[k] = None THEN [fs EXCEPT ![k] = f] ELSE fs

WithOnUpdate(f) ==
    /\ Configuring
    /\ on_update' = SlotAfter(on_update, f)
    /\ first_set' = FirstAfter(first_set, "update", f)
    /\ result' = [op |-> "with_on_update", ok |-> SlotOk(on_update)]
    /\ IF SlotOk(on_update)
       THEN UNCHANGED <<phase, observing, canvas_listeners>>
       ELSE DropRenderer
    /\ UNCHANGED <<on_render, on_resize, event_listeners, state, pc,
                   program_bound, schedulerVars, surfaceVars>>

WithOnRender(f) ==
    /\ Configuring
    /\ on_render' = SlotAfter(on_render, f)
    /\ first_set' = FirstAfter(first_set, "render", f)
    /\ result' = [op |-> "with_on_render", ok |-> SlotOk(on_render)]
    /\ IF SlotOk(on_render)
       THEN UNCHANGED <<phase, observing, canvas_listeners>>
       ELSE DropRenderer
    /\ UNCHANGED <<on_update, on_resize, event_listeners, state, pc,
                   program_bound, schedulerVars, surfaceVars>>

WithOnResize(f) ==
    /\ Configuring
    /\ on_resize' = SlotAfter(on_resize, f)
    /\ first_set' = FirstAfter(first_set, "resize", f)
    /\ result' = [op |-> "with_on_resize", ok |-> SlotOk(on_resize)]
    /\ IF SlotOk(on_resize)
       THEN UNCHANGED <<phase, observing, canvas_listeners>>
       ELSE DropRenderer
    /\ UNCHANGED <<on_update, on_render, event_listeners, state, pc,
                   program_bound, schedulerVars, surfaceVars>>

\* compile_shader / link_program succeed or fail as the host decides
WithShaders(ok) ==
    /\ Configuring
    /\ IF ok
       THEN /\ program_bound' = TRUE
            /\ UNCHANGED <<phase, observing, canvas_listeners>>
       ELSE /\ DropRenderer
            /\ UNCHANGED program_bound
    /\ result' = [op |-> "with_shaders", ok |-> ok]
    /\ UNCHANGED <<on_update, on_render, on_resize, event_listeners, state,
                   pc, first_set, schedulerVars, surfaceVars>>

\* the listener with_on_event builds: a fresh closure over rc_state
NewListener(els, ty, f) == [closure |-> Len(els) + 1, event_type |-> ty, on_event |-> f]

\* add_event_listener_with_callback succeeds or throws as the host decides
WithOnEvent(ty, f, ok) ==
    /\ Configuring
    /\ Len(event_listeners) < MaxListeners
    /\ IF ok
       THEN /\ canvas_listeners' =
                  canvas_listeners \cup {NewListener(event_listeners, ty, f)}
            /\ event_listeners' =
                  Append(event_listeners, NewListener(event_listeners, ty, f))
            /\ UNCHANGED <<phase, observing>>
       ELSE /\ DropRenderer
            /\ UNCHANGED event_listeners
    /\ result' = [op |-> "with_on_event", ok |-> ok]
    /\ UNCHANGED <<on_update, on_render, on_resize, state, pc, program_bound,
                   first_set, schedulerVars, surfaceVars>>

\* the caller lets an unstarted builder go out of scope
DropBuilder ==
    /\ Configuring
    /\ DropRenderer
    /\ UNCHANGED <<rendererVars, pc, current_instant, entered_by, result,
                   raf_pending, program_bound, backing_store,
                   viewport, obsVars>>

----------------------------------------------------------------------------
\* The scheduler: start, next_frame, update, render.

builderVars == <<on_update, on_render, on_resize, event_listeners,
    program_bound, first_set>>

\* next_frame from `let current_instant` to the head of the while loop,
\* reading the clock at t
EnterTick(t, acc, prev, mft, who) ==
    /\ current_instant' = t
    /\ instants' = Append(instants, [at |-> t, by |-> "next_frame"])
    /\ accumulated_time' = Accumulate(acc, prev, t, mft)
    /\ residue_entry' = acc
    /\ acc_entry' = Accumulate(acc, prev, t, mft)
    /\ updates_entry' = number_of_updates
    /\ renders_entry' = number_of_renders
    /\ tick_log' = <<>>
    /\ exit_mid_loop' = FALSE
    /\ re_accumulated' = FALSE
    /\ entered_by' = who
    /\ pc' = "loop"

\* (variant: start does not fill the state cell)
CellAfterSet_Never(cell) == cell

\* OnceCell::set on the state cell (start, line 156)
CellAfterSet(cell) == IF cell = "empty" THEN "set" ELSE cell

\* (variant: start hands next_frame to request_animation_frame)
Start_Deferred(ups, mft, t) ==
    /\ Configuring
    /\ state' = CellAfterSet(state)
    /\ updates_per_second' = ups
    /\ fixed_time_step' = TimeStepOf(ups)
    /\ max_frame_time' = mft
    /\ phase' = "Running"
    /\ result' = [op |-> "start", ok |-> TRUE]
    /\ raf_pending' = raf_pending + 1
    /\ UNCHANGED <<builderVars, exit, previous_instant, number_of_updates,
                   number_of_renders, canvas_listeners, observing,
                   accumulated_time, pc, current_instant, entered_by,
                   instants, tick_log, residue_entry, acc_entry,
                   updates_entry, renders_entry, exit_mid_loop,
                   re_accumulated, calls, borrowVars, surfaceVars>>

\* Renderer::start: fills the state cell, stores the parameters and calls
\* next_frame itself (exit is still false, so the first tick begins here)
Start(ups, mft, t) ==
    /\ Configuring
    /\ state' = CellAfterSet(state)
    /\ updates_per_second' = ups
    /\ fixed_time_step' = TimeStepOf(ups)
    /\ max_frame_time' = mft
    /\ phase' = "Running"
    /\ result' = [op |-> "start", ok |-> TRUE]
    /\ EnterTick(t, accumulated_time, previous_instant, mft, "start")
    /\ UNCHANGED <<builderVars, exit, previous_instant, number_of_updates,
                   number_of_renders, canvas_listeners, observing,
                   raf_pending, calls, borrowVars, surfaceVars>>

\* (variant: the exit flag is not tested)
ExitsAtEntry_Never(ex) == FALSE

\* `if self.exit { return }` at the head of next_frame
ExitsAtEntry(ex) == ex

\* the host runs the requested animation frame: next_frame with exit clear
FrameTick(t) ==
    /\ phase = "Running" /\ pc = "idle" /\ raf_pending > 0
    /\ ~ExitsAtEntry(exit)
    /\ number_of_renders < MaxRenders
    /\ raf_pending' = raf_pending - 1
    /\ EnterTick(t, accumulated_time, previous_instant, max_frame_time, "frame")
    /\ UNCHANGED <<builderVars, result, state, updates_per_second,
                   fixed_time_step, max_frame_time, exit, previous_instant,
                   number_of_updates, number_of_renders, phase,
                   canvas_listeners, observing, calls, borrowVars,
                   surfaceVars>>

\* the host runs the requested animation frame: next_frame with exit set
\* returns at once, and self goes out of scope
FrameExit ==
    /\ phase = "Running" /\ pc = "idle" /\ raf_pending > 0
    /\ ExitsAtEntry(exit)
    /\ raf_pending' = raf_pending - 1
    /\ DropRenderer
    /\ UNCHANGED <<rendererVars, pc, current_instant, entered_by, result,
                   program_bound, backing_store, viewport,
                   obsVars>>

\* the user callbacks Renderer::update / Renderer::render reach
UpdateCallees(f) == IF f = None THEN <<>> ELSE <<f>>
RenderCallees(f) == IF f = None THEN <<>> ELSE <<f>>

\* one iteration of the while loop: update(), then the two assignments
LoopStep(o) ==
    /\ pc = "loop"
    /\ LoopCond(accumulated_time, fixed_time_step)
    /\ o \in UpdateOpsOf(on_update)
    /\ tick_log' = tick_log \o UpdateCallees(on_update)
    /\ calls' = [calls EXCEPT !.update = @ + Len(UpdateCallees(on_update))]
    /\ Borrows(Len(UpdateCallees(on_update)))
    /\ exit' = ExitAfter(o, exit)
    /\ updates_per_second' = UpsAfter(o, updates_per_second)
    /\ exit_mid_loop' = (exit_mid_loop \/
          (o.op = "exit" /\
           LoopCond(accumulated_time - fixed_time_step, fixed_time_step)))
    /\ accumulated_time' = accumulated_time - fixed_time_step
    /\ number_of_updates' = number_of_updates + 1
    /\ UNCHANGED <<builderVars, result, state, fixed_time_step,
                   max_frame_time, previous_instant, number_of_renders, phase, pc,
                   current_instant, entered_by, canvas_listeners, observing,
                   raf_pending, instants, residue_entry, acc_entry,
                   updates_entry, renders_entry, re_accumulated,
                   surfaceVars>>

\* (variant: render() is called inside the while loop)
AfterRender_Loop == "loop"

\* where next_frame stands after render() and the counter increment
AfterRender == "finish"

\* the loop is drained: render(), then number_of_renders += 1
Render(o) ==
    /\ pc = "loop"
    /\ ~LoopCond(accumulated_time, fixed_time_step)
    /\ o \in RenderOpsOf(on_render)
    /\ tick_log' = tick_log \o RenderCallees(on_render)
    /\ calls' = [calls EXCEPT !.render = @ + Len(RenderCallees(on_render))]
    /\ Borrows(Len(RenderCallees(on_render)))
    /\ exit' = ExitAfter(o, exit)
    /\ updates_per_second' = UpsAfter(o, updates_per_second)
    /\ accumulated_time' =
          AccAfter(o, accumulated_time, previous_instant, max_frame_time)
    /\ instants' = ReadsAfter(o, instants)
    /\ re_accumulated' = (o.op = "re_accumulate")
    /\ number_of_renders' = number_of_renders + 1
    /\ pc' = AfterRender
    /\ UNCHANGED <<builderVars, result, state, fixed_time_step,
                   max_frame_time, previous_instant, number_of_updates, phase,
                   current_instant, entered_by, canvas_listeners, observing,
                   raf_pending, residue_entry, acc_entry, updates_entry,
                   renders_entry, exit_mid_loop, surfaceVars>>

\* (variant: the request at the end of next_frame is missing)
FramesRequested_None(ex) == 0

\* (variant: a frame is requested before the loop and again at the end)
FramesRequested_Twice(ex) == 2

\* (variant: the exit flag is tested before the request)
FramesRequested_UnlessExit(ex) == IF ex THEN 0 ELSE 1

\* frames next_frame asks the host for at its end
FramesRequested(ex) == 1

\* the tail of next_frame: previous_instant, then request_animation_frame
\* with a closure that owns self
FinishTick ==
    /\ pc = "finish"
    /\ previous_instant' = current_instant
    /\ raf_pending' = raf_pending + FramesRequested(exit)
    /\ pc' = "idle"
    /\ entered_by' = "none"
    /\ UNCHANGED <<builderVars, result, state, updates_per_second,
                   fixed_time_step, max_frame_time, accumulated_time, exit,
                   number_of_updates,
                   number_of_renders, phase, current_instant,
                   canvas_listeners, observing, instants, tick_log,
                   residue_entry, acc_entry, updates_entry, renders_entry,
                   exit_mid_loop, re_accumulated, calls, borrowVars,
                   surfaceVars>>

----------------------------------------------------------------------------
\* The host's callbacks into the closures. The host runs one callback at a
\* time, so none starts while next_frame is on the stack.

\* (variant: the closure does not test the state cell)
ClosureCalls_Always(st) == 1

\* on_event invocations of one run of a with_on_event closure
ClosureCalls(st) == IF st = "set" THEN 1 ELSE 0

\* resize hook invocations of one run of resize_canvas
HookCalls(f) == IF f = None THEN 0 ELSE 1

\* resize_canvas: (width, height), from the client size `as u32` and through
\* the hook when there is one; canvas.set_width / set_height take it as it is
ResizedTo(f, sz) ==
    IF f = None THEN <<AsU32(sz[1]), AsU32(sz[2])>>
    ELSE ResizeFn(f, <<AsU32(sz[1]), AsU32(sz[2])>>)

\* resize_canvas: context.viewport(0, 0, width as i32, height as i32)
ViewportOf(f, sz) == <<AsI32(ResizedTo(f, sz)[1]), AsI32(ResizedTo(f, sz)[2])>>

Listening(ty) == {l \in canvas_listeners : l.event_type = ty}

\* the canvas dispatches an event of type ty to its listeners
HostEvent(ty) ==
    /\ pc = "idle"
    /\ last_host' = [kind |-> "event", what |-> ty, cell |-> state,
          ran |-> {l.closure : l \in Listening(ty)},
          n_calls |-> Cardinality(Listening(ty)) * ClosureCalls(state),
          called |-> {l.on_event :
                        l \in {x \in Listening(ty) : ClosureCalls(state) > 0}},
          after_exit |-> exit]
    /\ Borrows(Cardinality(Listening(ty)) * ClosureCalls(state))
    /\ UNCHANGED <<rendererVars, controlVars, canvas_listeners, observing,
                   raf_pending, program_bound, backing_store,
                   viewport, instants, tick_log, residue_entry,
                   acc_entry, updates_entry, renders_entry, exit_mid_loop,
                   re_accumulated, calls, first_set>>

\* (variant: the resize closure also asks for a frame, to redraw at once)
HostResize_Redraws(sz) ==
    /\ pc = "idle"
    /\ observing
    /\ IF state = "set"
       THEN /\ backing_store' = ResizedTo(on_resize, sz)
            /\ viewport' = ViewportOf(on_resize, sz)
            /\ last_host' = [kind |-> "resize", what |-> sz, cell |-> state,
                  ran |-> {}, n_calls |-> HookCalls(on_resize),
                  called |-> {on_resize} \ {None}, after_exit |-> exit]
            /\ Borrows(1)
            /\ raf_pending' = IF raf_pending < 2 THEN raf_pending + 1
                              ELSE raf_pending
       ELSE /\ UNCHANGED <<backing_store, viewport, raf_pending>>
            /\ last_host' = [kind |-> "resize", what |-> sz, cell |-> state,
                  ran |-> {}, n_calls |-> 0, called |-> {},
                  after_exit |-> exit]
            /\ Borrows(0)
    /\ UNCHANGED <<rendererVars, controlVars, canvas_listeners, observing,
                   program_bound, instants, tick_log,
                   residue_entry, acc_entry, updates_entry, renders_entry,
                   exit_mid_loop, re_accumulated, calls, first_set>>

\* the ResizeObserver reports a resize while the canvas has client size sz:
\* resize_closure
HostResize(sz) ==
    /\ pc = "idle"
    /\ observing
    /\ IF state = "set"
       THEN /\ backing_store' = ResizedTo(on_resize, sz)
            /\ viewport' = ViewportOf(on_resize, sz)
            /\ last_host' = [kind |-> "resize", what |-> sz, cell |-> state,
                  ran |-> {}, n_calls |-> HookCalls(on_resize),
                  called |-> {on_resize} \ {None}, after_exit |-> exit]
            /\ Borrows(1)
       ELSE /\ UNCHANGED <<backing_store, viewport>>
            /\ last_host' = [kind |-> "resize", what |-> sz, cell |-> state,
                  ran |-> {}, n_calls |-> 0, called |-> {},
                  after_exit |-> exit]
            /\ Borrows(0)
    /\ UNCHANGED <<rendererVars, controlVars, canvas_listeners, observing,
                   raf_pending, program_bound, instants, tick_log,
                   residue_entry, acc_entry, updates_entry, renders_entry,
                   exit_mid_loop, re_accumulated, calls, first_set>>

----------------------------------------------------------------------------

\* The whole system: the builder, the loop, the host's events and resize
\* notifications. The loop runs at 30 updates per second with
\* max_frame_time 0.1 s, and the clock is read at 0.0 s or 5.02 s.
SysInstants == {0, 1506}
SysUps == {30}
SysMft == {30}
SysUpdateOps == {o \in UpdateOps : o.arg \in {0, 60}}
SysRenderOps == {o \in RenderOps : o.arg \in {0, 60, 1506}}

Next ==
    \/ \E f \in UpdateFns : WithOnUpdate(f)
    \/ \E f \in RenderFns : WithOnRender(f)
    \/ \E f \in ResizeFns : WithOnResize(f)
    \/ \E ok \in BOOLEAN : WithShaders(ok)
    \/ \E ty \in EventTypes, f \in EventFns, ok \in BOOLEAN : WithOnEvent(ty, f, ok)
    \/ DropBuilder
    \/ \E ups \in SysUps, mft \in SysMft, t \in SysInstants : Start(ups, mft, t)
    \/ \E t \in SysInstants : FrameTick(t)
    \/ FrameExit
    \/ \E o \in SysUpdateOps : LoopStep(o)
    \/ \E o \in SysRenderOps : Render(o)
    \/ FinishTick
    \/ \E ty \in EventTypes : HostEvent(ty)
    \/ \E sz \in ClientSizes : HostResize(sz)

Spec == Init /\ [][Next]_vars

\* The loop alone, over every parameter and instant above: the builder sets
\* the two callbacks of the loop, and the host only delivers frames.
NextLoop ==
    \/ \E f \in UpdateFns : WithOnUpdate(f)
    \/ \E f \in RenderFns : WithOnRender(f)
    \/ \E ups \in UpsChoices, mft \in MftChoices, t \in Instants : Start(ups, mft, t)
    \/ \E t \in Instants : FrameTick(t)
    \/ FrameExit
    \/ \E o \in UpdateOps : LoopStep(o)
    \/ \E o \in RenderOps : Render(o)
    \/ FinishTick

SpecLoop == Init /\ [][NextLoop]_vars

\* A run to shutdown: a builder with the callbacks that use UpdateInfo and
\* RenderInfo and with event listeners is started, the host delivers every
\* frame that was requested, and the code of a tick runs to its end.
NextLive ==
    \/ WithOnUpdate("update_b")
    \/ WithOnRender("render_b")
    \/ \E ty \in EventTypes : WithOnEvent(ty, "on_event", TRUE)
    \/ \E t \in SysInstants : Start(30, 30, t)
    \/ \E t \in SysInstants : FrameTick(t)
    \/ FrameExit
    \/ \E o \in SysUpdateOps : LoopStep(o)
    \/ \E o \in SysRenderOps : Render(o)
    \/ FinishTick
    \/ \E ty \in EventTypes : HostEvent(ty)

SpecLive ==
    /\ Init /\ [][NextLive]_vars
    /\ WF_vars(\E t \in SysInstants : FrameTick(t))
    /\ WF_vars(FrameExit)
    /\ WF_vars(\E o \in SysUpdateOps : LoopStep(o))
    /\ WF_vars(\E o \in SysRenderOps : Render(o))
    /\ WF_vars(FinishTick)

----------------------------------------------------------------------------
\* Properties of the loop, checked under SpecLoop.

Started == state = "set"

\* updates run by the current (or last) tick
TickUpdates == number_of_updates - updates_entry

UpdateCallsIn(log) == Cardinality({i \in 1..Len(log) : log[i] \in UpdateFns})
RenderCallsIn(log) == Cardinality({i \in 1..Len(log) : log[i] \in RenderFns})

\* C1: in every tick the update callback has run once per loop iteration
\* before the render callback starts, the render callback (when one is set)
\* runs exactly once and last, number_of_renders grows by one, and no update
\* runs between the render and the end of the tick.
C1_UpdatesThenOneRender ==
    Started =>
        /\ \A i \in 1..Len(tick_log) :
              tick_log[i] \in RenderFns => i = Len(tick_log)
        /\ UpdateCallsIn(tick_log) =
              IF on_update = None THEN 0 ELSE TickUpdates
        /\ pc = "loop" =>
              /\ RenderCallsIn(tick_log) = 0
              /\ number_of_renders = renders_entry
        /\ pc \in {"finish", "idle"} =>
              /\ RenderCallsIn(tick_log) = IF on_render = None THEN 0 ELSE 1
              /\ number_of_renders = renders_entry + 1

\* a tick delivered by the host has run two updates, then its render
C1_Witness ==
    /\ pc = "finish" /\ entered_by = "frame"
    /\ UpdateCallsIn(tick_log) >= 2
    /\ RenderCallsIn(tick_log) = 1
    /\ tick_log[Len(tick_log)] \in RenderFns

\* C2 as stated: a tick runs floor(a / fixed_time_step) updates, a being
\* accumulated_time after the clamped elapsed time was added.
C2_Original ==
    (Started /\ pc = "finish") =>
        TickUpdates = FloorDiv(acc_entry, fixed_time_step)

\* C2, amended: a tick runs max(0, floor(a / fixed_time_step)) updates; each
\* subtracts fixed_time_step from accumulated_time and adds one to
\* number_of_updates; start(_, 60, 0.1) with the clock read at 0.0 s and
\* 0.02 s ends its second tick with number_of_updates = 1,
\* number_of_renders = 2 and accumulated_time = 0.02 - 1/60.
C2_UpdatesPerTick ==
    Started =>
        /\ pc = "loop" =>
              accumulated_time = acc_entry - TickUpdates * fixed_time_step
        /\ pc = "finish" =>
              TickUpdates = Max(0, FloorDiv(acc_entry, fixed_time_step))
        /\ (/\ pc = "idle" /\ instants = TickReads(<<0, 6>>)
            /\ fixed_time_step = TimeStepOf(60) /\ max_frame_time = 30) =>
              /\ number_of_updates = 1
              /\ number_of_renders = 2
              /\ accumulated_time = 6 - TimeStepOf(60)

\* the scenario of C2 has run
C2_Witness ==
    /\ pc = "idle" /\ instants = TickReads(<<0, 6>>) /\ number_of_renders = 2
    /\ fixed_time_step = TimeStepOf(60) /\ max_frame_time = 30
    /\ on_update # None

\* render is entered: the loop is drained and render has not re-accumulated
RenderSaw == Started /\ pc = "finish" /\ ~re_accumulated

\* C3 as stated: for any instants, 0 <= accumulated_time < fixed_time_step
\* when render is entered.
C3_Original ==
    RenderSaw =>
        /\ 0 <= accumulated_time
        /\ accumulated_time < fixed_time_step

\* C3, amended: accumulated_time < fixed_time_step when render is entered;
\* and 0 <= accumulated_time when the instants read so far are
\* non-decreasing and max_frame_time >= 0.
C3_BlendingFactorRange ==
    RenderSaw =>
        /\ accumulated_time < fixed_time_step
        /\ (Monotone(instants) /\ max_frame_time >= 0) =>
              0 <= accumulated_time

\* a second tick under a monotone clock leaves a residue for blending
C3_Witness ==
    /\ RenderSaw /\ Monotone(instants) /\ max_frame_time >= 0
    /\ Len(instants) = 2 /\ TickUpdates >= 1
    /\ 0 < accumulated_time

\* the gap the current tick measured
Gap == current_instant - previous_instant

\* some render callback so far has called re_accumulate
ReAccumulatedBefore == \E i \in 1..Len(instants) : instants[i].by = "re_accumulate"

\* what C4 states of a finished tick
ClampBoundsUpdates ==
    /\ acc_entry - residue_entry <= max_frame_time
    /\ residue_entry < fixed_time_step
    /\ TickUpdates <=
          FloorDiv(residue_entry + max_frame_time, fixed_time_step)
    /\ (max_frame_time = 30 /\ Gap = 5 * TicksPerSecond) =>
          TickUpdates = FloorDiv(30, fixed_time_step)

\* C4: with a clock that never goes back, a tick adds at most max_frame_time,
\* the residue r it starts from is below fixed_time_step, it runs at most
\* floor((r + max_frame_time) / fixed_time_step) updates, and with
\* max_frame_time = 0.1 a stall of 5.0 s runs the updates of 0.1 s.
C4_Original ==
    (Started /\ pc = "finish" /\ Monotone(instants)) => ClampBoundsUpdates

\* C4 holds of the runs in which no render callback has called re_accumulate
C4_WithoutReAccumulate ==
    (Started /\ pc = "finish" /\ Monotone(instants) /\ ~ReAccumulatedBefore)
        => ClampBoundsUpdates

\* C5 as stated: a tick in which exit() was called ends Exited, with no
\* frame requested; only a tick that ends with the flag clear requests one.
C5_Original ==
    (Started /\ pc = "idle" /\ exit) =>
        /\ raf_pending = 0
        /\ phase = "Dropped"

\* the end of a tick, and the delivery of a requested frame
TickEnds == pc = "finish" /\ pc' = "idle"
FrameDelivered == pc = "idle" /\ raf_pending' = raf_pending - 1

\* C5, amended: every tick requests exactly one frame at its end, also the
\* tick in which exit() was called, and the Renderer stays alive; the flag
\* is tested when that frame is delivered: next_frame then neither runs a
\* callback nor requests a frame, and the Renderer is dropped.
C5_ExitTakesEffectAtNextFrame ==
    /\ [](Started => (phase = "Dropped" <=> (pc = "idle" /\ exit /\ raf_pending = 0)))
    /\ [][/\ TickEnds =>
              /\ raf_pending' = raf_pending + 1
              /\ phase' = "Running"
          /\ (FrameDelivered /\ exit) =>
              /\ phase' = "Dropped" /\ pc' = "idle"
              /\ raf_pending' = 0
              /\ calls' = calls /\ tick_log' = tick_log
              /\ number_of_renders' = number_of_renders
          /\ (FrameDelivered /\ ~exit) => pc' = "loop"]_vars

\* exit() was called in a tick, and the frame that tick requested has come
C5_Witness ==
    /\ Started /\ exit /\ phase = "Dropped" /\ raf_pending = 0
    /\ number_of_renders >= 1

\* C6: exit() called in an update callback while further updates are
\* pending does not cut the tick short: the tick still runs every pending
\* update and its render; and once that tick is over no update or render
\* callback runs again, whatever frames are delivered.
C6_ExitIsCooperative ==
    /\ []((Started /\ exit_mid_loop) =>
            /\ pc = "loop" =>
                  (LoopCond(accumulated_time, fixed_time_step)
                     => ENABLED (\E o \in UpdateOps : LoopStep(o)))
            /\ pc \in {"finish", "idle"} =>
                  /\ TickUpdates = Max(0, FloorDiv(acc_entry, fixed_time_step))
                  /\ UpdateCallsIn(tick_log) = TickUpdates
                  /\ RenderCallsIn(tick_log) =
                        IF on_render = None THEN 0 ELSE 1)
    /\ [][(exit /\ pc = "idle") =>
              /\ calls' = calls /\ tick_log' = tick_log
              /\ pc' = "idle"
              /\ number_of_updates' = number_of_updates
              /\ number_of_renders' = number_of_renders]_vars

\* exit() was called with updates pending, the tick ran them and rendered,
\* and the next frame has been delivered
C6_Witness ==
    /\ exit_mid_loop /\ phase = "Dropped"
    /\ UpdateCallsIn(tick_log) >= 3
    /\ RenderCallsIn(tick_log) = 1

----------------------------------------------------------------------------
\* Properties of the builder, the closures and the teardown, checked under
\* Spec.

\* the registrations of event_listeners for events of type ty
ListenersOf(ty) ==
    {i \in 1..Len(event_listeners) : event_listeners[i].event_type = ty}

\* closures of event_listeners the canvas still holds
StillSubscribed ==
    {i \in 1..Len(event_listeners) :
        \E l \in canvas_listeners : l.closure = event_listeners[i].closure}

\* C7: an event delivered while the state cell is empty (before start)
\* invokes no callback; an event delivered to a running Renderer invokes
\* the on_event of every listener registered for its type, once each.
C7_EventsReachCallbacksAfterStart ==
    last_host.kind = "event" =>
        /\ last_host.cell = "empty" =>
              /\ last_host.n_calls = 0
              /\ last_host.called = {}
        /\ (last_host.cell = "set" /\ phase = "Running") =>
              /\ last_host.ran =
                    {event_listeners[i].closure : i \in ListenersOf(last_host.what)}
              /\ last_host.n_calls = Cardinality(ListenersOf(last_host.what))
              /\ last_host.called =
                    {event_listeners[i].on_event : i \in ListenersOf(last_host.what)}

\* an event for a registered type reached a running Renderer
C7_Witness ==
    /\ last_host.kind = "event" /\ last_host.cell = "set"
    /\ phase = "Running"
    /\ last_host.n_calls = 1 /\ last_host.called = {"on_event"}

\* C8: once the Renderer is dropped, none of its listeners is on the canvas
\* and the resize observer is disconnected, and whatever the host emits
\* afterwards invokes no user callback and resizes nothing.
C8_DropUnsubscribesAll ==
    /\ [](phase = "Dropped" => (~observing /\ StillSubscribed = {}))
    /\ [][phase = "Dropped" =>
              /\ calls' = calls
              /\ backing_store' = backing_store /\ viewport' = viewport
              /\ last_host' # last_host =>
                    /\ last_host'.kind = "event"
                    /\ last_host'.ran = {}
                    /\ last_host'.n_calls = 0]_vars

\* a run ended by exit was dropped, and an event of the type its listener
\* was registered for came afterwards and ran nothing
C8_Witness ==
    /\ phase = "Dropped" /\ Started /\ exit
    /\ Len(event_listeners) >= 1
    /\ last_host.kind = "event" /\ last_host.cell = "set"
    /\ last_host.what = event_listeners[1].event_type
    /\ last_host.ran = {}

\* a with_* call on slot `slot` (named `op`) has just returned
SlotCall(op, slot, slot_after, fns) ==
    (result' # result /\ result'.op = op) =>
        /\ result'.ok = (slot = None)
        /\ slot = None => slot_after \in fns
        /\ slot # None => slot_after = slot

\* C9: each of on_update, on_render, on_resize is set by the first with_*
\* call for it and by no later one: a call succeeds exactly when its own
\* slot is empty, a failing call leaves the slot as it was, no call touches
\* another slot, and the callbacks the loop and the resize closure invoke
\* are the ones the first calls stored.
C9_SlotsSetAtMostOnce ==
    /\ [](/\ on_update = first_set.update
          /\ on_render = first_set.render
          /\ on_resize = first_set.resize
          /\ \A i \in 1..Len(tick_log) :
                tick_log[i] \in {first_set.update, first_set.render}
          /\ last_host.kind = "resize" =>
                last_host.called \subseteq {first_set.resize})
    /\ [][/\ SlotCall("with_on_update", on_update, on_update', UpdateFns)
          /\ SlotCall("with_on_render", on_render, on_render', RenderFns)
          /\ SlotCall("with_on_resize", on_resize, on_resize', ResizeFns)
          /\ result'.op = "with_on_update" =>
                (on_render' = on_render /\ on_resize' = on_resize)
          /\ result'.op = "with_on_render" =>
                (on_update' = on_update /\ on_resize' = on_resize)
          /\ result'.op = "with_on_resize" =>
                (on_update' = on_update /\ on_render' = on_render)]_vars

\* a second with_on_update has failed while the other slots were filled
C9_Witness ==
    /\ result = [op |-> "with_on_update", ok |-> FALSE]
    /\ on_update \in UpdateFns
    /\ on_render \in RenderFns /\ on_resize \in ResizeFns

\* C10 as stated: after a failed with_* call the builder is still the
\* caller's, its callbacks stored and its listeners subscribed.
C10_Original ==
    ~result.ok =>
        /\ phase = "Configuring"
        /\ observing
        /\ StillSubscribed = 1..Len(event_listeners)

\* C10, amended: a failed with_* call costs the caller the builder: it was
\* moved into the call and is dropped there, its listeners unsubscribed and
\* its resize observer disconnected; it was never started, no callback of
\* it has run or will run, and nothing further happens to it.
C10_FailedCallDropsBuilder ==
    /\ [](~result.ok =>
            /\ phase = "Dropped" /\ ~observing /\ StillSubscribed = {}
            /\ state = "empty" /\ raf_pending = 0
            /\ calls = [update |-> 0, render |-> 0] /\ tick_log = <<>>
            /\ last_host.n_calls = 0)
    /\ [][~result.ok =>
            UNCHANGED <<rendererVars, controlVars, canvas_listeners,
                        observing, raf_pending, program_bound,
                        backing_store, viewport, calls, tick_log>>]_vars

\* a with_on_update failed on a builder that held callbacks and a listener
C10_Witness ==
    /\ result = [op |-> "with_on_update", ok |-> FALSE]
    /\ phase = "Dropped"
    /\ on_render # None /\ Len(event_listeners) >= 1
    /\ last_host.kind = "event"

\* start has been called
StartCalled == result.op = "start"

\* C11: the state cell is empty until start is called, start fills it, it
\* changes at no other step and never back, and every invocation of
\* on_update, on_render, on_event or on_resize finds it filled.
C11_StateCellSetOnceByStart ==
    /\ [](/\ state = "set" <=> StartCalled
          /\ (calls.update > 0 \/ calls.render > 0 \/ tick_log # <<>>
              \/ last_host.n_calls > 0) => state = "set")
    /\ [][/\ state' # state =>
                (state = "empty" /\ state' = "set"
                 /\ ~StartCalled /\ StartCalled')
          /\ state = "set" => state' = "set"]_vars

\* after start all four kinds of callback have found the cell filled
C11_Witness ==
    /\ state = "set" /\ StartCalled
    /\ calls.update >= 1 /\ calls.render >= 1
    /\ last_host.kind = "event" /\ last_host.n_calls = 1
    /\ viewport # <<0, 0>>

\* C12: with the host running one callback at a time, at most one RefMut of
\* the user's state is alive at any instant and none is alive between two
\* callbacks; the event and resize closures run only while next_frame is
\* not on the stack, and no step runs both a loop callback and a host one.
C12_OneMutableBorrowAtATime ==
    /\ [](peak_borrowed <= 1 /\ borrowed = 0)
    /\ [][/\ last_host' # last_host =>
                (pc = "idle" /\ pc' = "idle"
                 /\ calls' = calls /\ tick_log' = tick_log)
          /\ calls' # calls =>
                (pc = "loop" /\ last_host' = last_host)]_vars

\* update, render and the resize hook have each borrowed the state in turn
C12_Witness ==
    /\ peak_borrowed = 1 /\ borrowed = 0
    /\ calls.update >= 2 /\ calls.render >= 1
    /\ last_host.kind = "resize" /\ last_host.n_calls = 1

\* next_frame has just accumulated and stands at the head of its loop
TickBegins == Started /\ pc = "loop" /\ TickUpdates = 0

\* C13: at the beginning of every tick fixed_time_step is
\* 1 / updates_per_second for the current updates_per_second, also after
\* a callback has called set_updates_per_second.
C13_Original ==
    TickBegins => fixed_time_step = TimeStepOf(updates_per_second)

\* the last host callback was a resize notification for client size sz
ResizeSeen(sz) == last_host.kind = "resize" /\ last_host.what = sz

\* the size resize_canvas computes for client size sz
HookResult(sz) ==
    IF on_resize = None THEN <<U32(sz[1]), U32(sz[2])>>
    ELSE ResizeFn(on_resize, <<U32(sz[1]), U32(sz[2])>>)

\* the viewport (i32, i32) is the pair (u32, u32) of the backing store
SamePair(vp, bs) ==
    \A k \in 1..2 : vp[k] >= 0 /\ U32(vp[k]) = bs[k]

\* C14 as stated: a resize notification after start sets the backing store
\* and the viewport to one and the same pair, the hook's result for the
\* client size, or the client size when there is no hook.
C14_Original ==
    \A sz \in ClientSizes :
        (ResizeSeen(sz) /\ last_host.cell = "set") =>
            /\ backing_store = HookResult(sz)
            /\ SamePair(viewport, backing_store)

\* What resize_canvas does (the rest of C14 holds): a resize notification
\* after start sets the backing store to the hook's result for (state, client
\* size), or to the client size when there is no hook, and calls the hook
\* once; the viewport is given each component of that pair cast to i32, the
\* same number when it is below 2^31 and a negative one otherwise. A resize
\* notification before start changes neither and calls no hook.
C14_ExceptForTheCast ==
    /\ [](\A sz \in ClientSizes :
            /\ (ResizeSeen(sz) /\ last_host.cell = "set") =>
                  /\ backing_store = HookResult(sz)
                  /\ \A k \in 1..2 :
                        IF backing_store[k][1] < HalfWord \div 2
                        THEN viewport[k] >= 0 /\ U32(viewport[k]) = backing_store[k]
                        ELSE viewport[k] < 0 /\ AsU32(viewport[k]) = backing_store[k]
                  /\ last_host.n_calls = (IF on_resize = None THEN 0 ELSE 1)
                  /\ last_host.called = {on_resize} \ {None}
            /\ (ResizeSeen(sz) /\ last_host.cell = "empty") =>
                  /\ last_host.n_calls = 0 /\ last_host.called = {})
    /\ [][(state = "empty" /\ state' = "empty") =>
              (backing_store' = backing_store /\ viewport' = viewport)]_vars

\* simulated time: what the updates consumed plus what is still accumulated
SimulatedTime == number_of_updates * fixed_time_step + accumulated_time

\* the latest value current_instant() returned
LatestInstant == instants[Len(instants)].at

\* simulated time is not ahead of the wall clock
NotAheadOfClock == SimulatedTime <= LatestInstant - 0

\* C15: for non-decreasing instants, after any sequence of ticks and
\* re_accumulate calls, number_of_updates * fixed_time_step +
\* accumulated_time is at most the latest measured instant minus the
\* initial previous_instant (0).
C15_Original ==
    (Started /\ Monotone(instants)) => NotAheadOfClock

\* C15 holds of the runs in which no render callback has called
\* re_accumulate
C15_WithoutReAccumulate ==
    (Started /\ Monotone(instants) /\ ~ReAccumulatedBefore) => NotAheadOfClock

\* start has been called and has not returned yet
InsideStart == Started /\ entered_by = "start"

\* start is returning
StartReturns == InsideStart /\ pc = "finish" /\ pc' = "idle"

\* C16 as stated: start requests the first tick and invokes no callback
\* itself.
C16_Original ==
    InsideStart => (tick_log = <<>> /\ calls = [update |-> 0, render |-> 0])

\* C16, amended: start fills the state cell, stores the scheduler
\* parameters and runs the first tick itself, before it returns and before
\* any frame is requested: the updates due for the time the clock shows
\* (clamped to max_frame_time) and then the render are invoked
\* synchronously inside start, and the first frame request is the one that
\* tick makes at its end.
C16_StartRunsFirstTick ==
    /\ [](InsideStart =>
            /\ raf_pending = 0 /\ renders_entry = 0 /\ updates_entry = 0
            /\ acc_entry = Elapsed(0, current_instant, max_frame_time)
            /\ pc = "finish" =>
                  /\ number_of_updates =
                        Max(0, FloorDiv(acc_entry, fixed_time_step))
                  /\ UpdateCallsIn(tick_log) =
                        (IF on_update = None THEN 0 ELSE number_of_updates)
                  /\ RenderCallsIn(tick_log) =
                        (IF on_render = None THEN 0 ELSE 1)
                  /\ number_of_renders = 1)
    /\ [][/\ (~StartCalled /\ StartCalled') =>
                /\ state' = "set"
                /\ fixed_time_step' = TimeStepOf(updates_per_second')
                /\ InsideStart' /\ pc' = "loop"
          /\ StartReturns => (raf_pending' = 1 /\ number_of_renders' = 1)]_vars

\* start, called with the clock at 0.02 s and 60 updates per second, has
\* run an update and the render and has requested no frame yet
C16_Witness ==
    /\ InsideStart /\ pc = "finish" /\ raf_pending = 0
    /\ current_instant = 6 /\ fixed_time_step = TimeStepOf(60)
    /\ tick_log \in {<<u, r>> : u \in UpdateFns, r \in RenderFns}

\* the step runs an event closure or the resize closure
HostCallbackRuns ==
    \/ last_host' # last_host
    \/ backing_store' # backing_store
    \/ viewport' # viewport

\* C17: a step in which the host runs an event closure or the resize
\* closure, before or after start, leaves accumulated_time,
\* previous_instant, fixed_time_step, updates_per_second, max_frame_time,
\* number_of_updates, number_of_renders and exit as they were, invokes
\* neither on_update nor on_render and requests no frame.
C17_HostCallbacksOutOfBand ==
    [][HostCallbackRuns =>
          /\ UNCHANGED <<accumulated_time, previous_instant, fixed_time_step,
                         updates_per_second, max_frame_time,
                         number_of_updates, number_of_renders, exit>>
          /\ UNCHANGED <<calls, tick_log, pc, raf_pending, instants>>]_vars

\* a resize notification was handled between two ticks of a running loop
C17_Witness ==
    /\ last_host.kind = "resize" /\ last_host.cell = "set"
    /\ phase = "Running" /\ pc = "idle"
    /\ number_of_updates >= 1 /\ number_of_renders = 1 /\ raf_pending = 1
    /\ viewport # <<0, 0>>

\* C18: at most one frame request is pending, and none while a tick runs; a
\* request is made only by the last step of a tick (start's own or the one
\* the previous request delivered), after its render, one per tick; a tick
\* begins only from start or by taking the pending request.
C18_OnePendingFrameRequest ==
    /\ [](/\ raf_pending <= 1
          /\ pc # "idle" => (raf_pending = 0 /\ entered_by \in {"start", "frame"})
          /\ (Started /\ phase = "Running" /\ pc = "idle") => raf_pending = 1)
    /\ [][/\ raf_pending' > raf_pending =>
                /\ TickEnds /\ raf_pending' = raf_pending + 1
                /\ number_of_renders = renders_entry + 1
          /\ TickEnds => raf_pending' = raf_pending + 1
          /\ (pc = "idle" /\ pc' = "loop") =>
                \/ (~StartCalled /\ StartCalled' /\ raf_pending' = raf_pending)
                \/ (StartCalled /\ raf_pending = 1 /\ raf_pending' = 0)]_vars

\* the second tick is over and its request is the only one pending
C18_Witness ==
    /\ pc = "idle" /\ phase = "Running" /\ raf_pending = 1
    /\ number_of_renders = 2 /\ Len(instants) >= 2

\* the Renderer is gone and has left nothing on the canvas
TornDown ==
    /\ phase = "Dropped" /\ ~observing /\ StillSubscribed = {}
    /\ raf_pending = 0

\* C19: if the host delivers every requested frame, a running instance in
\* which exit() was called is eventually dropped, its listeners
\* unsubscribed and its resize observer disconnected; every tick that
\* begins reaches its render and ends with a frame requested, and while
\* exit is clear a finished tick is followed by the next one (up to
\* MaxRenders ticks).
C19_ShutdownIsLive ==
    /\ (Started /\ exit) ~> TornDown
    /\ \A n \in 0..MaxRenders :
          (Started /\ pc = "loop" /\ renders_entry = n) ~>
              (pc = "idle" /\ number_of_renders = n + 1 /\ raf_pending = 1)
    /\ \A n \in 1..(MaxRenders - 1) :
          (phase = "Running" /\ pc = "idle" /\ ~exit /\ number_of_renders = n)
              ~> (pc = "loop" /\ renders_entry = n)

\* exit() was called in the second tick and the instance, which had a
\* listener, has been torn down
C19_Witness ==
    /\ TornDown /\ Started /\ exit
    /\ number_of_renders = 2 /\ Len(event_listeners) >= 1

\* C20 as stated: a host event or resize notification that arrives after
\* the tick in which exit() was called has ended invokes no callback.
C20_Original ==
    last_host.after_exit => last_host.n_calls = 0

\* C20, amended: the callbacks stop when the frame requested by the tick in
\* which exit() was called is delivered, not when that tick ends. Until
\* that delivery the Renderer is alive, and an event still invokes the
\* on_event of every listener of its type and a resize notification still
\* invokes the resize hook; from the delivery on (the Renderer is dropped
\* there) no event callback and no resize hook is invoked.
C20_CallbacksStopAtNextFrame ==
    [][last_host' # last_host =>
          /\ phase = "Dropped" =>
                (last_host'.n_calls = 0 /\ last_host'.called = {})
          /\ (phase = "Running" /\ exit /\ last_host'.kind = "event") =>
                /\ last_host'.after_exit
                /\ last_host'.n_calls =
                      Cardinality(ListenersOf(last_host'.what))
          /\ (phase = "Running" /\ exit /\ last_host'.kind = "resize") =>
                /\ last_host'.after_exit
                /\ last_host'.n_calls = HookCalls(on_resize)]_vars

\* after the exit tick an event reached a dropped Renderer whose listener
\* was registered for it, and ran nothing
C20_Witness ==
    /\ last_host.after_exit /\ last_host.kind = "event"
    /\ phase = "Dropped" /\ number_of_renders >= 1
    /\ ListenersOf(last_host.what) # {}
    /\ last_host.n_calls = 0

====
